---- MODULE Spec2Model ----
(***************************************************************************)
(* Model of threewordhash/core.py: the deterministic pipeline              *)
(*   _normalize -> _hmac_sha256 -> _bytes_to_indices / _checksum_base36    *)
(*   -> friendly_id.                                                       *)
(* Text is a sequence of Unicode code points, bytes are a sequence of      *)
(* 0..255.  Python integers are unbounded; the 32-bit chunk value and the  *)
(* 256-bit checksum number are therefore handled digit-wise (base 256).    *)
(***************************************************************************)
EXTENDS Integers, Sequences, FiniteSets, TLC

\* ---------------------------------------------------------------- bounds
MaxWords == 20
MaxChecksumLen == 3
MaxLen == 3

\* ------------------------------------------------------- library: Unicode
\* Code points the inputs are drawn from:
\*   TAB, SPACE, 'H', 'h', NO-BREAK SPACE, U+210C BLACK-LETTER CAPITAL H.
Chars == {9, 32, 72, 104, 160, 8460}

\* str.isspace() of one code point.
IsSpace(c) == c \in {9, 32, 160}

\* str.lower() of one code point (U+210C has no lowercase mapping).
LowerChar(c) == IF c >= 65 /\ c <= 90 THEN c + 32 ELSE c

\* unicodedata.normalize("NFKC", c) of one code point of Chars:
\* NBSP -> SPACE, U+210C -> 'H', everything else unchanged.
NfkcChar(c) == IF c = 160 THEN 32 ELSE IF c = 8460 THEN 72 ELSE c

\* s.strip(): drop leading and trailing whitespace.
RECURSIVE LStrip(_)
LStrip(s) == IF s # <<>> /\ IsSpace(Head(s)) THEN LStrip(Tail(s)) ELSE s

RECURSIVE RStrip(_)
RStrip(s) ==
  IF s # <<>> /\ IsSpace(s[Len(s)]) THEN RStrip(SubSeq(s, 1, Len(s) - 1)) ELSE s

Strip(s) == RStrip(LStrip(s))

\* s.lower()
Lower(s) == [k \in 1..Len(s) |-> LowerChar(s[k])]

\* unicodedata.normalize("NFKC", s); over Chars the mapping is per code point
\* (no combining marks, no compositions).
Nfkc(s) == [k \in 1..Len(s) |-> NfkcChar(s[k])]

\* s.split(): the maximal runs of non-whitespace, in order.
RECURSIVE SplitFrom(_, _, _)
SplitFrom(s, cur, acc) ==
  IF s = <<>> THEN (IF cur = <<>> THEN acc ELSE Append(acc, cur))
  ELSE IF IsSpace(Head(s))
       THEN SplitFrom(Tail(s), <<>>, IF cur = <<>> THEN acc ELSE Append(acc, cur))
       ELSE SplitFrom(Tail(s), Append(cur, Head(s)), acc)

Split(s) == SplitFrom(s, <<>>, <<>>)

\* sep.join(parts)
RECURSIVE Join(_, _)
Join(sep, parts) ==
  IF parts = <<>> THEN <<>>
  ELSE IF Len(parts) = 1 THEN parts[1]
  ELSE parts[1] \o sep \o Join(sep, Tail(parts))

\* s.encode("utf-8") for code points below U+10000.
Utf8Char(c) ==
  IF c < 128 THEN <<c>>
  ELSE IF c < 2048 THEN <<192 + (c \div 64), 128 + (c % 64)>>
  ELSE <<224 + (c \div 4096), 128 + ((c \div 64) % 64), 128 + (c % 64)>>

RECURSIVE Utf8(_)
Utf8(s) == IF s = <<>> THEN <<>> ELSE Utf8Char(Head(s)) \o Utf8(Tail(s))

\* ------------------------------------------------------- library: hashing
DigestSize == 32

\* Stand-in for hashlib.sha256(data).digest(): a deterministic function of
\* all the bytes of data (order and length included) to DigestSize bytes.
RECURSIVE Absorb(_, _)
Absorb(h, data) ==
  IF data = <<>> THEN h
  ELSE Absorb((h * 131 + Head(data) + 1) % 65521, Tail(data))

Sha256(data) ==
  LET h == Absorb(Len(data) + 7, data)
  IN  [j \in 1..DigestSize |-> ((h + j) * (37 * j + 11) + (h \div 256)) % 256]

\* Stand-in for hmac.new(key, msg, hashlib.sha256).digest(): the nested
\* hash of the HMAC construction, H(key_o || H(key_i || msg)).
HmacSha256(key, msg) ==
  Sha256(<<92>> \o key \o Sha256(<<54>> \o key \o msg))

\* ------------------------------------------------------------ _normalize
\* core.py:13-16
_normalize(s) == Join(<<32>>, Split(Nfkc(Lower(Strip(s)))))

\* core.py:19-20
_hmac_sha256(key, msg) == HmacSha256(key, Utf8(_normalize(msg)))

\* ------------------------------------------------- Python integer helpers
\* int.from_bytes(chunk, "big", signed=False) % m, for m >= 1 (Horner form,
\* the value itself needs 32 bits).
RECURSIVE ModFrom(_, _, _)
ModFrom(bytes, m, r) ==
  IF bytes = <<>> THEN r ELSE ModFrom(Tail(bytes), m, (r * 256 + Head(bytes)) % m)

FromBytesMod(bytes, m) == ModFrom(bytes, m, 0)

\* num // m for a big-endian base-256 number (long division, same length).
RECURSIVE DivFrom(_, _, _, _)
DivFrom(bytes, m, r, acc) ==
  IF bytes = <<>> THEN acc
  ELSE LET cur == r * 256 + Head(bytes)
       IN  DivFrom(Tail(bytes), m, cur % m, Append(acc, cur \div m))

FloorDiv(bytes, m) == DivFrom(bytes, m, 0, <<>>)

\* ctr.to_bytes(2, "big"), defined for 0 <= ctr <= CtrMax.
CtrMax == 65535
ToBytes2(ctr) == <<ctr \div 256, ctr % 256>>

\* string.digits + string.ascii_uppercase
chars == <<48, 49, 50, 51, 52, 53, 54, 55, 56, 57,
           65, 66, 67, 68, 69, 70, 71, 72, 73, 74, 75, 76, 77,
           78, 79, 80, 81, 82, 83, 84, 85, 86, 87, 88, 89, 90>>

\* ----------------------------------------------------------------- inputs
RECURSIVE StringsUpTo(_)
StringsUpTo(len) ==
  IF len = 0 THEN {<<>>}
  ELSE LET shorter == StringsUpTo(len - 1)
       IN  shorter \cup {Append(s, c) : s \in {t \in shorter : Len(t) = len - 1}, c \in Chars}

\* arguments of direct calls of _normalize
Strings == StringsUpTo(MaxLen)

\* user_input of friendly_id: "h", "H", U+210C, " h<TAB>", "h  H", "h<NBSP>h"
Inputs == { <<104>>, <<72>>, <<8460>>, <<32, 104, 9>>,
            <<104, 32, 32, 72>>, <<104, 160, 104>> }

\* secret_salt: "test-salt"
Salts == { <<116, 101, 115, 116, 45, 115, 97, 108, 116>> }

\* wordlists: empty, ["alpha", "bravo", "charlie"], and 512 distinct words
Wordlist3 == << <<97, 108, 112, 104, 97>>, <<98, 114, 97, 118, 111>>,
                <<99, 104, 97, 114, 108, 105, 101>> >>
MinWordlist == 512
WordlistMin == [j \in 1..MinWordlist |-> <<97 + ((j - 1) \div 26), 97 + ((j - 1) % 26)>>]
Wordlists == { <<>>, Wordlist3, WordlistMin }

\* n_words of friendly_id, count of _bytes_to_indices
WordCounts == {1, 2, 3, 9, MaxWords}
Counts == 0..MaxWords

\* checksum_len / length
ChecksumLens == (-1)..MaxChecksumLen

\* sep: "-" and the empty string
Seps == { <<45>>, <<>> }

\* seeds of direct calls of _bytes_to_indices and _checksum_base36:
\* lengths 0, 1, 3, 4, 6, 32 (a digest) and 36
Seeds == { <<>>, <<7>>, <<1, 2, 3>>, <<255, 255, 255, 255>>,
           <<0, 0, 2, 0, 9, 9>>, Sha256(<<1>>),
           Sha256(<<2>>) \o <<128, 0, 0, 1>> }
Moduli == {0, 1, 7, MinWordlist}

\* ------------------------------------------------------------------ state
VARIABLES
  pc,         \* line of core.py the call is at; "idle", "done", "raised"
  top,        \* function called from outside
  fid,        \* frame of friendly_id
  b2i,        \* frame of _bytes_to_indices
  cs,         \* frame of _checksum_base36
  result,     \* value returned by the top call
  returned,   \* TRUE once the top call has returned
  error,      \* exception raised by the top call, "" if none
  hashCalls,  \* hmac / sha256 digests computed by the top call so far
  twin        \* the preceding friendly_id call with the same parameters

vars == <<pc, top, fid, b2i, cs, result, returned, error, hashCalls, twin>>

NoFid == [user_input |-> <<>>, secret_salt |-> <<>>, wordlist |-> <<>>,
          n_words |-> 0, checksum_len |-> 0, sep |-> <<>>,
          digest |-> <<>>, idxs |-> <<>>, words |-> <<>>, check |-> <<>>]
NoB2i == [b |-> <<>>, vocab_size |-> 0, n |-> 0, needed |-> 0, out |-> <<>>,
          pool |-> <<>>, ctr |-> 0, i |-> 0]
NoCs == [b |-> <<>>, length |-> 0, num |-> <<>>, out |-> <<>>, k |-> 0]
NoTwin == [has |-> FALSE, user_input |-> <<>>, result |-> <<>>]

Init ==
  /\ pc = "idle"
  /\ top = ""
  /\ fid = NoFid
  /\ b2i = NoB2i
  /\ cs = NoCs
  /\ result = <<>>
  /\ returned = FALSE
  /\ error = ""
  /\ hashCalls = 0
  /\ twin = NoTwin

\* ---------------------------------------------------- calls from outside
StartCall(f) ==
  /\ pc = "idle"
  /\ top' = f
  /\ result' = <<>>
  /\ returned' = FALSE
  /\ error' = ""
  /\ hashCalls' = 0
  /\ twin' = NoTwin

NewFid(u, s, w, nw, cl, sp) ==
  [NoFid EXCEPT !.user_input = u, !.secret_salt = s, !.wordlist = w,
                !.n_words = nw, !.checksum_len = cl, !.sep = sp]

NewB2i(bytes, size, count) ==
  [NoB2i EXCEPT !.b = bytes, !.vocab_size = size, !.n = count]

NewCs(bytes, len) == [NoCs EXCEPT !.b = bytes, !.length = len]

\* friendly_id(user_input, secret_salt, wordlist, n_words, checksum_len, sep)
CallFriendlyId(u, s, w, nw, cl, sp) ==
  /\ StartCall("friendly_id")
  /\ pc' = "fid101"
  /\ fid' = NewFid(u, s, w, nw, cl, sp)
  /\ UNCHANGED <<b2i, cs>>

\* friendly_id called again with another user_input and the parameters of
\* the call that has just returned (gui.py encode() after _update_input)
CallAgain(u) ==
  /\ pc = "done"
  /\ top = "friendly_id"
  /\ twin' = [has |-> TRUE, user_input |-> fid.user_input, result |-> result]
  /\ pc' = "fid101"
  /\ fid' = NewFid(u, fid.secret_salt, fid.wordlist, fid.n_words,
                   fid.checksum_len, fid.sep)
  /\ b2i' = NoB2i
  /\ cs' = NoCs
  /\ result' = <<>>
  /\ returned' = FALSE
  /\ error' = ""
  /\ hashCalls' = 0
  /\ UNCHANGED top

\* _bytes_to_indices(b, vocab_size, n)
CallBytesToIndices(bytes, size, count) ==
  /\ StartCall("_bytes_to_indices")
  /\ pc' = "b2i29"
  /\ b2i' = NewB2i(bytes, size, count)
  /\ UNCHANGED <<fid, cs>>

\* _checksum_base36(b, length)
CallChecksum(bytes, len) ==
  /\ StartCall("_checksum_base36")
  /\ pc' = "cs55"
  /\ cs' = NewCs(bytes, len)
  /\ UNCHANGED <<fid, b2i>>

\* _normalize(s), lines 15-16
CallNormalize(s) ==
  /\ pc = "idle"
  /\ top' = "_normalize"
  /\ pc' = "done"
  /\ fid' = [NoFid EXCEPT !.user_input = s]
  /\ result' = _normalize(s)
  /\ returned' = TRUE
  /\ UNCHANGED <<b2i, cs, error, hashCalls, twin>>

\* the caller takes the result or the exception; the next call can start
Finish ==
  /\ pc \in {"done", "raised"}
  /\ pc' = "idle"
  /\ top' = ""
  /\ fid' = NoFid
  /\ b2i' = NoB2i
  /\ cs' = NoCs
  /\ result' = <<>>
  /\ returned' = FALSE
  /\ error' = ""
  /\ hashCalls' = 0
  /\ twin' = NoTwin

\* ------------------------------------------------------ _bytes_to_indices
\* IndexOf with the modulus off by one
IndexOfOffByOne(chunk, vocab_size) == FromBytesMod(chunk, vocab_size + 1)

\* line 40: val % vocab_size, val = int.from_bytes(chunk, "big", signed=False)
IndexOf(chunk, vocab_size) == FromBytesMod(chunk, vocab_size)

\* ScanDone without the early exit of the scan
ScanDoneNever(needed) == FALSE

\* line 42: if needed == 0: break
ScanDone(needed) == needed = 0

\* Rehash with the counter written little-endian
RehashLittleEndian(pool, ctr) == Sha256(pool \o <<ctr % 256, ctr \div 256>>)

\* line 46: hashlib.sha256(pool + ctr.to_bytes(2, "big")).digest()
Rehash(pool, ctr) == Sha256(pool \o ToBytes2(ctr))

\* lines 29-32
B2iEnter ==
  /\ pc = "b2i29"
  /\ b2i' = [b2i EXCEPT !.needed = b2i.n, !.out = <<>>, !.pool = b2i.b, !.ctr = 0]
  /\ pc' = "b2i33"
  /\ UNCHANGED <<top, fid, cs, result, returned, error, hashCalls, twin>>

\* line 33: while needed > 0, entering the for loop of line 35 at i = 0
B2iWhile ==
  /\ pc = "b2i33"
  /\ IF b2i.needed > 0
     THEN /\ pc' = "b2i35"
          /\ b2i' = [b2i EXCEPT !.i = 0]
     ELSE /\ pc' = "b2i47"
          /\ UNCHANGED b2i
  /\ UNCHANGED <<top, fid, cs, result, returned, error, hashCalls, twin>>

\* lines 35-43: one iteration of for i in range(0, len(pool), 4)
B2iScan ==
  /\ pc = "b2i35"
  /\ LET pool == b2i.pool
         i == b2i.i
         chunk == SubSeq(pool, i + 1, IF i + 4 <= Len(pool) THEN i + 4 ELSE Len(pool))
     IN  IF i >= Len(pool) \/ Len(chunk) < 4
         THEN /\ pc' = "b2i44"
              /\ UNCHANGED <<b2i, error>>
         ELSE IF b2i.vocab_size = 0
         THEN /\ pc' = "raised"
              /\ error' = "ZeroDivisionError"
              /\ UNCHANGED b2i
         ELSE /\ b2i' = [b2i EXCEPT !.out = Append(b2i.out, IndexOf(chunk, b2i.vocab_size)),
                                    !.needed = b2i.needed - 1,
                                    !.i = IF ScanDone(b2i.needed - 1) THEN i ELSE i + 4]
              /\ pc' = IF ScanDone(b2i.needed - 1) THEN "b2i44" ELSE "b2i35"
              /\ UNCHANGED error
  /\ UNCHANGED <<top, fid, cs, result, returned, hashCalls, twin>>

\* lines 44-46: if needed > 0: ctr += 1; pool = sha256(pool + ctr.to_bytes(2, "big"))
B2iExtend ==
  /\ pc = "b2i44"
  /\ IF b2i.needed > 0
     THEN IF b2i.ctr + 1 > CtrMax
          THEN /\ pc' = "raised"
               /\ error' = "OverflowError"
               /\ b2i' = [b2i EXCEPT !.ctr = b2i.ctr + 1]
               /\ UNCHANGED hashCalls
          ELSE /\ b2i' = [b2i EXCEPT !.ctr = b2i.ctr + 1,
                                     !.pool = Rehash(b2i.pool, b2i.ctr + 1)]
               /\ hashCalls' = hashCalls + 1
               /\ pc' = "b2i33"
               /\ UNCHANGED error
     ELSE /\ pc' = "b2i33"
          /\ UNCHANGED <<b2i, hashCalls, error>>
  /\ UNCHANGED <<top, fid, cs, result, returned, twin>>

\* line 47: return out (to friendly_id line 104, or to the outside caller)
B2iReturn ==
  /\ pc = "b2i47"
  /\ IF top = "friendly_id"
     THEN /\ fid' = [fid EXCEPT !.idxs = b2i.out]
          /\ pc' = "fid105"
          /\ UNCHANGED <<result, returned>>
     ELSE /\ result' = b2i.out
          /\ returned' = TRUE
          /\ pc' = "done"
          /\ UNCHANGED fid
  /\ UNCHANGED <<top, b2i, cs, error, hashCalls, twin>>

\* ------------------------------------------------------- _checksum_base36
\* Prepend that appends the new digit instead
PrependAtEnd(num, out) == out \o <<chars[FromBytesMod(num, 36) + 1]>>

\* line 59: out = chars[num % 36] + out
Prepend(num, out) == <<chars[FromBytesMod(num, 36) + 1]>> \o out

\* lines 55-57: num = int.from_bytes(hashlib.sha256(b).digest(), "big")
CsEnter ==
  /\ pc = "cs55"
  /\ cs' = [cs EXCEPT !.num = Sha256(cs.b), !.out = <<>>, !.k = 0]
  /\ hashCalls' = hashCalls + 1
  /\ pc' = "cs58"
  /\ UNCHANGED <<top, fid, b2i, result, returned, error, twin>>

\* lines 58-60: one iteration of for _ in range(length)
CsLoop ==
  /\ pc = "cs58"
  /\ IF cs.k < cs.length
     THEN /\ cs' = [cs EXCEPT !.out = Prepend(cs.num, cs.out),
                              !.num = FloorDiv(cs.num, 36),
                              !.k = cs.k + 1]
          /\ UNCHANGED pc
     ELSE /\ pc' = "cs61"
          /\ UNCHANGED cs
  /\ UNCHANGED <<top, fid, b2i, result, returned, error, hashCalls, twin>>

\* line 61: return out (to friendly_id line 106, or to the outside caller)
CsReturn ==
  /\ pc = "cs61"
  /\ IF top = "friendly_id"
     THEN /\ fid' = [fid EXCEPT !.check = cs.out]
          /\ pc' = "fid107"
          /\ UNCHANGED <<result, returned>>
     ELSE /\ result' = cs.out
          /\ returned' = TRUE
          /\ pc' = "done"
          /\ UNCHANGED fid
  /\ UNCHANGED <<top, b2i, cs, error, hashCalls, twin>>

\* ------------------------------------------------------------ friendly_id
\* TooFewWords that accepts a single word
TooFewWordsBelowOne(n_words) == n_words < 1

\* line 101: if n_words < 2
TooFewWords(n_words) == n_words < 2

\* Tokens that always carries the checksum token
TokensAlways(words, check, checksum_len) == Append(words, check)

\* line 107: words + [check] if checksum_len > 0 else words
Tokens(words, check, checksum_len) ==
  IF checksum_len > 0 THEN Append(words, check) ELSE words

\* lines 101-102
FidValidate ==
  /\ pc = "fid101"
  /\ IF TooFewWords(fid.n_words)
     THEN /\ pc' = "raised"
          /\ error' = "ValueError"
     ELSE /\ pc' = "fid103"
          /\ UNCHANGED error
  /\ UNCHANGED <<top, fid, b2i, cs, result, returned, hashCalls, twin>>

\* line 103: digest = _hmac_sha256(secret_salt.encode("utf-8"), user_input)
FidDigest ==
  /\ pc = "fid103"
  /\ fid' = [fid EXCEPT !.digest = _hmac_sha256(Utf8(fid.secret_salt), fid.user_input)]
  /\ hashCalls' = hashCalls + 1
  /\ pc' = "fid104"
  /\ UNCHANGED <<top, b2i, cs, result, returned, error, twin>>

\* line 104: idxs = _bytes_to_indices(digest, len(wordlist), n_words)
FidIndices ==
  /\ pc = "fid104"
  /\ b2i' = NewB2i(fid.digest, Len(fid.wordlist), fid.n_words)
  /\ pc' = "b2i29"
  /\ UNCHANGED <<top, fid, cs, result, returned, error, hashCalls, twin>>

\* line 105: words = [wordlist[i] for i in idxs]
\* line 106: check = _checksum_base36(digest, checksum_len)
FidWords ==
  /\ pc = "fid105"
  /\ fid' = [fid EXCEPT !.words = [j \in 1..Len(fid.idxs) |-> fid.wordlist[fid.idxs[j] + 1]]]
  /\ cs' = NewCs(fid.digest, fid.checksum_len)
  /\ pc' = "cs55"
  /\ UNCHANGED <<top, b2i, result, returned, error, hashCalls, twin>>

\* line 107: return sep.join(...)
FidJoin ==
  /\ pc = "fid107"
  /\ result' = Join(fid.sep, Tokens(fid.words, fid.check, fid.checksum_len))
  /\ returned' = TRUE
  /\ pc' = "done"
  /\ UNCHANGED <<top, fid, b2i, cs, error, hashCalls, twin>>

\* ---------------------------------------------------------- specification
Next ==
  \/ \E u \in Inputs, s \in Salts, w \in Wordlists, nw \in WordCounts,
        cl \in ChecksumLens, sp \in Seps : CallFriendlyId(u, s, w, nw, cl, sp)
  \/ \E u \in Inputs : CallAgain(u)
  \/ \E bytes \in Seeds, size \in Moduli, count \in Counts :
        CallBytesToIndices(bytes, size, count)
  \/ \E bytes \in Seeds, len \in ChecksumLens : CallChecksum(bytes, len)
  \/ \E s \in Strings : CallNormalize(s)
  \/ Finish
  \/ B2iEnter
  \/ B2iWhile
  \/ B2iScan
  \/ B2iExtend
  \/ B2iReturn
  \/ CsEnter
  \/ CsLoop
  \/ CsReturn
  \/ FidValidate
  \/ FidDigest
  \/ FidIndices
  \/ FidWords
  \/ FidJoin

Spec == Init /\ [][Next]_vars

\* _bytes_to_indices called on its own; the interpreter runs a started call
\* to its end (weak fairness of the steps of the call)
B2iStep == B2iEnter \/ B2iWhile \/ B2iScan \/ B2iExtend \/ B2iReturn

NextB2i ==
  \/ \E bytes \in Seeds, size \in Moduli, count \in Counts :
        CallBytesToIndices(bytes, size, count)
  \/ Finish
  \/ B2iEnter
  \/ B2iWhile
  \/ B2iScan
  \/ B2iExtend
  \/ B2iReturn

FairSpec == Init /\ [][NextB2i]_vars /\ WF_vars(B2iStep)

\* ------------------------------------------------------------ properties
\* error kinds of the specification as the code raises them
InvalidParameter == "ValueError"
InvalidWordlist == "ValueError"

InB2i == pc \in {"b2i29", "b2i33", "b2i35", "b2i44", "b2i47"}
Terminal == pc \in {"done", "raised"}

\* C1: whenever the modulus is at least 1, every value _bytes_to_indices has
\* appended to out lies in [0, vocab_size), in every state of the loop and
\* in what it returns, values from re-hashed pools included.
C1_IndexRange ==
  (pc # "idle" /\ b2i.vocab_size >= 1) =>
     /\ \A j \in 1..Len(b2i.out) : b2i.out[j] >= 0 /\ b2i.out[j] < b2i.vocab_size
     /\ (top = "_bytes_to_indices" /\ returned) =>
           \A j \in 1..Len(result) : result[j] >= 0 /\ result[j] < b2i.vocab_size

\* 20 values from a 32-byte seed: two extensions, the last values coming
\* from the second re-hashed pool
C1_Witness ==
  /\ pc = "b2i47"
  /\ Len(b2i.b) = 32 /\ b2i.n = 20 /\ b2i.vocab_size = MinWordlist
  /\ b2i.ctr = 2 /\ Len(b2i.out) = 20

\* tokens glued from the last one backwards
RECURSIVE Glue(_, _)
Glue(toks, sep) ==
  IF toks = <<>> THEN <<>>
  ELSE IF Len(toks) = 1 THEN toks[1]
  ELSE Glue(SubSeq(toks, 1, Len(toks) - 1), sep) \o sep \o toks[Len(toks)]

RECURSIVE Occurrences(_, _)
Occurrences(c, s) ==
  IF s = <<>> THEN 0
  ELSE (IF Head(s) = c THEN 1 ELSE 0) + Occurrences(c, Tail(s))

\* C2: a friendly_id call that returns (n_words >= 2, non-empty wordlist)
\* returns the words wordlist[i] of the expander's indices in production
\* order, then the checksum token iff checksum_len > 0, joined by sep; with
\* sep "-" that is n_words tokens plus one iff checksum_len > 0, and with
\* checksum_len = 0 the result does not end in the separator.
C2_Assembly ==
  (top = "friendly_id" /\ pc = "done") =>
     LET ws == [j \in 1..fid.n_words |-> fid.wordlist[b2i.out[j] + 1]]
         expected == IF fid.checksum_len > 0
                     THEN Glue(ws, fid.sep) \o fid.sep \o cs.out
                     ELSE Glue(ws, fid.sep)
     IN  /\ returned
         /\ fid.n_words >= 2 /\ Len(fid.wordlist) >= 1
         /\ Len(b2i.out) = fid.n_words
         /\ result = expected
         /\ fid.sep = <<45>> =>
               /\ Occurrences(45, result) + 1 =
                     fid.n_words + (IF fid.checksum_len > 0 THEN 1 ELSE 0)
               /\ fid.checksum_len = 0 => result[Len(result)] # 45

C2_Witness ==
  /\ top = "friendly_id" /\ pc = "done"
  /\ fid.checksum_len = 0 /\ fid.sep = <<45>> /\ fid.n_words = 3
  /\ Len(fid.wordlist) = MinWordlist
  /\ Occurrences(45, result) = 2

\* C3: friendly_id with n_words < 2 raises InvalidParameter at line 101-102,
\* before any digest, index or checksum is computed, and returns nothing;
\* with n_words = 2 and a non-empty wordlist it raises nothing and returns
\* an identifier.
C3_WordCountValidation ==
  top = "friendly_id" =>
     /\ fid.n_words < 2 =>
           /\ pc \in {"fid101", "raised"}
           /\ hashCalls = 0 /\ ~returned /\ result = <<>>
           /\ fid.digest = <<>> /\ b2i = NoB2i /\ cs = NoCs
           /\ pc = "raised" => error = InvalidParameter
     /\ (fid.n_words = 2 /\ Len(fid.wordlist) >= 1) =>
           /\ pc # "raised" /\ error = ""
           /\ pc = "done" => (returned /\ result # <<>>)

C3_Witness ==
  /\ top = "friendly_id" /\ fid.n_words = 1 /\ Len(fid.wordlist) = MinWordlist
  /\ pc = "raised" /\ error = InvalidParameter /\ hashCalls = 0

\* C4: friendly_id with a negative checksum_len (n_words >= 2, non-empty
\* wordlist) ends by raising InvalidParameter before any hashing, and never
\* returns an identifier.
C4_NegativeLengthRejected ==
  (top = "friendly_id" /\ fid.checksum_len < 0 /\ fid.n_words >= 2
     /\ Len(fid.wordlist) >= 1 /\ Terminal) =>
     (pc = "raised" /\ error = InvalidParameter /\ ~returned /\ hashCalls = 0)

\* C5: _normalize(_normalize(s)) = _normalize(s) for every string s.
C5_NormalizeIdempotent ==
  (top = "_normalize" /\ returned) => _normalize(result) = result

\* the text of s: its whitespace-separated words, every code point taken to
\* its compatibility form and then to lower case
TextOf(s) ==
  LET ws == Split(s)
  IN  [j \in 1..Len(ws) |-> [k \in 1..Len(ws[j]) |-> LowerChar(NfkcChar(ws[j][k]))]]

\* s and t differ only by leading/trailing whitespace, the length or kind of
\* whitespace runs, letter case, or compatibility-equivalent encoding
SameText(s, t) == TextOf(s) = TextOf(t)

\* C6: two friendly_id calls with the same salt, wordlist, n_words,
\* checksum_len and sep whose inputs differ only by whitespace, letter case
\* or compatibility-equivalent encoding return the same identifier.
C6_NormalizationEquivalence ==
  (top = "friendly_id" /\ pc = "done" /\ twin.has
     /\ SameText(twin.user_input, fid.user_input)) => result = twin.result

RECURSIVE Pow36(_)
Pow36(e) == IF e = 0 THEN 1 ELSE 36 * Pow36(e - 1)

DigitOf(c) == IF c <= 57 THEN c - 48 ELSE c - 55

RECURSIVE Base36Value(_, _)
Base36Value(s, acc) ==
  IF s = <<>> THEN acc ELSE Base36Value(Tail(s), acc * 36 + DigitOf(Head(s)))

\* C7: for length >= 0, _checksum_base36(b, length) returns exactly length
\* characters of 0-9A-Z, which read most significant digit first are the
\* value of the SHA-256 digest of b (big-endian) modulo 36^length.
C7_Checksum ==
  (pc = "cs61" /\ cs.length >= 0) =>
     /\ Len(cs.out) = cs.length
     /\ \A j \in 1..Len(cs.out) : cs.out[j] \in (48..57) \cup (65..90)
     /\ Base36Value(cs.out, 0) = FromBytesMod(Sha256(cs.b), Pow36(cs.length))

C7_Witness ==
  /\ pc = "cs61" /\ top = "_checksum_base36"
  /\ cs.length = 3 /\ Len(cs.out) = 3 /\ cs.out[1] # cs.out[3]

\* C8: friendly_id with an empty wordlist ends by raising InvalidWordlist
\* without having hashed anything or entered index derivation.
C8_EmptyWordlistRefused ==
  (top = "friendly_id" /\ Len(fid.wordlist) = 0 /\ fid.n_words >= 2 /\ Terminal) =>
     (pc = "raised" /\ error = InvalidWordlist /\ hashCalls = 0 /\ b2i = NoB2i)

\* the reference machine (pool, position, counter) of the specification
BE32Mod(pool, pos, m) ==
  ( (pool[pos + 1] % m) * (16777216 % m) + (pool[pos + 2] % m) * (65536 % m)
    + (pool[pos + 3] % m) * (256 % m) + (pool[pos + 4] % m) ) % m

RECURSIVE RefExpand(_, _, _, _, _, _)
RefExpand(pool, pos, counter, modulus, count, acc) ==
  IF Len(acc) >= count THEN acc
  ELSE IF pos + 4 <= Len(pool)
  THEN RefExpand(pool, pos + 4, counter, modulus, count,
                 Append(acc, BE32Mod(pool, pos, modulus)))
  ELSE RefExpand(Sha256(pool \o <<(counter + 1) \div 256, (counter + 1) % 256>>),
                 0, counter + 1, modulus, count, acc)

\* C9: for modulus >= 1 and count >= 1, out is at every point of the loop a
\* prefix of the reference machine's output and at the return equal to it.
C9_ReferenceMachine ==
  (InB2i /\ pc # "b2i29" /\ b2i.n >= 1 /\ b2i.vocab_size >= 1) =>
     LET ref == RefExpand(b2i.b, 0, 0, b2i.vocab_size, b2i.n, <<>>)
     IN  /\ Len(b2i.out) <= Len(ref)
         /\ b2i.out = SubSeq(ref, 1, Len(b2i.out))
         /\ pc = "b2i47" => b2i.out = ref

C9_Witness ==
  /\ pc = "b2i47" /\ top = "friendly_id"
  /\ fid.n_words = MaxWords /\ Len(fid.wordlist) = MinWordlist
  /\ b2i.ctr = 2 /\ Len(b2i.out) = MaxWords

CeilDiv(a, d) == (a + d - 1) \div d

C10_Safe ==
  (InB2i /\ pc # "b2i29" /\ b2i.n >= 1 /\ b2i.vocab_size >= 1) =>
     /\ Len(b2i.out) + b2i.needed = b2i.n
     /\ b2i.needed >= 0
     /\ b2i.ctr <= CeilDiv(b2i.n, 8)
     /\ pc = "b2i47" =>
           /\ Len(b2i.out) = b2i.n
           /\ Len(b2i.b) = DigestSize => b2i.ctr = CeilDiv(b2i.n, 8) - 1
           /\ (Len(b2i.b) = DigestSize /\ b2i.n <= 8) => b2i.ctr = 0

C10_Started == pc = "b2i29" /\ b2i.n >= 1 /\ b2i.vocab_size >= 1

C10_AtReturn == pc = "b2i47"

====
